---------------------------- MODULE Spec2Model ----------------------------
(* A model of py-sqlite-analyzer's statistics engine                        *)
(* (src/include/sqlitestats.py, class SQLite3Analyzer).                     *)
(*                                                                          *)
(* The analysed database is the model's input: the catalog (sqlite_master), *)
(* PRAGMA index_list of every table, the page records of temp.dbstat and    *)
(* the file's PRAGMA scalars.  The constructor reduces the page records to  *)
(* one row of space_used per object; every query is a SELECT on space_used  *)
(* followed by Python arithmetic.                                           *)
(*                                                                          *)
(* SQL NULL / Python None is NULL == <<>>, an SQL or Python integer n is    *)
(* Val(n) == <<n>>.  Python floats are exact fractions [num, den] in        *)
(* lowest terms.  A raised exception is a result with err # "none".         *)
EXTENDS Integers, Sequences, FiniteSets, TLC

VARIABLES
    sqlite_master,   \* catalog rows with rootpage > 0: <<[name, tbl_name]>>
    index_lists,     \* PRAGMA index_list of the analysed db: name -> <<[name, origin]>>
    dbstat,          \* temp.dbstat: the set of page records
    page_size,       \* PRAGMA page_size
    page_count,      \* PRAGMA page_count
    auto_vacuum,     \* PRAGMA auto_vacuum
    freelist,        \* PRAGMA freelist_count
    pc,              \* "new" | "ready" | "failed"
    space_used,      \* the in-memory table space_used, in insertion order
    iscompresed,     \* the attribute self._iscompresed (NULL until assigned)
    result           \* the last call and what it returned: [op, arg, err, val]

vars == <<sqlite_master, index_lists, dbstat, page_size, page_count,
          auto_vacuum, freelist, pc, space_used, iscompresed, result>>

dbvars == <<sqlite_master, index_lists, dbstat, page_size, page_count,
            auto_vacuum, freelist>>

----------------------------------------------------------------------------
(* Values *)

NULL == <<>>
Val(n) == <<n>>
IsNull(v) == v = NULL
Get(v) == v[1]

Abs(n) == IF n < 0 THEN -n ELSE n

RECURSIVE GCD(_, _)
GCD(a, b) == IF b = 0 THEN a ELSE GCD(b, a % b)

\* The Python quotient n / d (d # 0) as a fraction in lowest terms.
Frac(n, d) ==
    LET g == GCD(Abs(n), Abs(d))
        s == IF d < 0 THEN -1 ELSE 1
    IN  [num |-> (s * n) \div g, den |-> (s * d) \div g]

Zero == [num |-> 0, den |-> 1]

\* ceil(n / d) for d > 0
CeilDiv(n, d) == -((-n) \div d)

RECURSIVE SumSeq(_)
SumSeq(s) == IF s = <<>> THEN 0 ELSE Head(s) + SumSeq(Tail(s))

RECURSIVE MaxSeq(_)
MaxSeq(s) ==
    IF Len(s) = 1 THEN Head(s)
    ELSE LET m == MaxSeq(Tail(s)) IN IF Head(s) > m THEN Head(s) ELSE m

Bool2Int(b) == IF b THEN 1 ELSE 0

\* SQL sum() and max() of a column: NULLs are skipped, and the aggregate of
\* no non-NULL value is NULL.
NonNull(col) == SelectSeq(col, LAMBDA v : ~IsNull(v))
Unwrap(col) == [k \in 1..Len(col) |-> Get(col[k])]
SqlSum(col) == IF Len(NonNull(col)) = 0 THEN NULL ELSE Val(SumSeq(Unwrap(NonNull(col))))
SqlMax(col) == IF Len(NonNull(col)) = 0 THEN NULL ELSE Val(MaxSeq(Unwrap(NonNull(col))))

----------------------------------------------------------------------------
(* temp.dbstat *)

\* The page records of one object ORDER BY pageno (page numbers are unique).
RECURSIVE SortByPageno(_)
SortByPageno(S) ==
    IF S = {} THEN <<>>
    ELSE LET p == CHOOSE q \in S : \A r \in S : q.pageno <= r.pageno
         IN  <<p>> \o SortByPageno(S \ {p})

PagesOf(name) == SortByPageno({p \in dbstat : p.name = name})

\* path LIKE '%+%'
HasPlus(path) == \E k \in 1..Len(path) : path[k] = "+"

\* path LIKE '%+000000'
OvflSuffix == <<"+", "0", "0", "0", "0", "0", "0">>
EndsInOvflMarker(path) ==
    /\ Len(path) >= Len(OvflSuffix)
    /\ SubSeq(path, Len(path) - Len(OvflSuffix) + 1, Len(path)) = OvflSuffix

\* A depth that reads the paths of overflow pages like any other
PathDepthOfAnyPath(path) == (Len(path) + 3) \div 4

\* (length(CASE WHEN path LIKE '%+%' THEN '' ELSE path END)+3)/4, SQL integer division
PathDepth(path) == ((IF HasPlus(path) THEN 0 ELSE Len(path)) + 3) \div 4


----------------------------------------------------------------------------
(* The catalog *)

\* _tables(): the catalog rows with rootpage > 0, then sqlite_master itself.
Tables == sqlite_master \o <<[name |-> "sqlite_master", tbl_name |-> "sqlite_master"]>>

\* SELECT count(*) FROM sqlite_master WHERE name = n
CountMaster(n) == Len(SelectSeq(sqlite_master, LAMBDA r : r.name = n))

\* str.upper() on the origins PRAGMA index_list reports
Upper(origin) ==
    CASE origin = "pk" -> "PK"
      [] origin = "c"  -> "C"
      [] origin = "u"  -> "U"
      [] OTHER         -> origin

\* PRAGMA index_list = "table" on the analysed database; empty for a name
\* that is no table with indices.
IndexListOf(table) ==
    IF table \in DOMAIN index_lists THEN index_lists[table] ELSE <<>>

\* The loop of is_without_rowid.  pk_is_table is the loop's local: NULL while
\* unassigned (reading it then raises UnboundLocalError), else Val(count).
RECURSIVE IsWithoutRowidLoop(_, _, _, _)
IsWithoutRowidLoop(table, indices, k, pk_is_table) ==
    IF k > Len(indices) THEN [err |-> "none", val |-> FALSE]
    ELSE LET pk == IF Upper(indices[k].origin) = "PK"
                   THEN Val(CountMaster(table))
                   ELSE pk_is_table
         IN  IF IsNull(pk) THEN [err |-> "UnboundLocalError", val |-> FALSE]
             ELSE IF Get(pk) = 0 THEN [err |-> "none", val |-> TRUE]
             ELSE IsWithoutRowidLoop(table, indices, k + 1, pk)

is_without_rowid(table) == IsWithoutRowidLoop(table, IndexListOf(table), 1, NULL)

----------------------------------------------------------------------------
(* The per-object extractor *)

\* GapStep charging a gap for a page of any type
GapStepAnyType(st, page) ==
    [gap_count |-> IF /\ st.previous_page > 0
                      /\ page.pageno # st.previous_page + 1
                   THEN st.gap_count + 1
                   ELSE st.gap_count,
     previous_page |-> page.pageno]

\* GapStep charging the object's first page like any other
GapStepFirstCharged(st, page) ==
    [gap_count |-> IF /\ page.pagetype = "leaf"
                      /\ page.pageno # st.previous_page + 1
                   THEN st.gap_count + 1
                   ELSE st.gap_count,
     previous_page |-> page.pageno]

\* GapStep moving the cursor on leaf pages only
GapStepLeafCursor(st, page) ==
    [gap_count |-> IF /\ st.previous_page > 0
                      /\ page.pagetype = "leaf"
                      /\ page.pageno # st.previous_page + 1
                   THEN st.gap_count + 1
                   ELSE st.gap_count,
     previous_page |-> IF page.pagetype = "leaf" THEN page.pageno ELSE st.previous_page]

\* One iteration of the loop of _count_gaps on [gap_count, previous_page].
GapStep(st, page) ==
    [gap_count |-> IF /\ st.previous_page > 0
                      /\ page.pagetype = "leaf"
                      /\ page.pageno # st.previous_page + 1
                   THEN st.gap_count + 1
                   ELSE st.gap_count,
     previous_page |-> page.pageno]

RECURSIVE CountGapsLoop(_, _, _)
CountGapsLoop(pages, k, st) ==
    IF k > Len(pages) THEN st.gap_count
    ELSE CountGapsLoop(pages, k + 1, GapStep(st, pages[k]))

\* _count_gaps over the object's pages ORDER BY pageno
CountGapsOf(pages) == CountGapsLoop(pages, 1, [gap_count |-> 0, previous_page |-> 0])

count_gaps(table_name) == CountGapsOf(PagesOf(table_name))

\* sum(expr) / max(expr) over the object's page records, given the values of
\* expr: NULL when the object has none.
AggSum(col) == IF Len(col) = 0 THEN NULL ELSE Val(SumSeq(col))
AggMax(col) == IF Len(col) = 0 THEN NULL ELSE Val(MaxSeq(col))

\* max(...) AS depth over the paths of an object's page records
max_depth(paths) == AggMax([k \in DOMAIN paths |-> PathDepth(paths[k])])

\* The aggregate SELECT of _extract_sqlite_stats.
ExtractQuery(table_name) ==
    LET ps == PagesOf(table_name)
        D == 1..Len(ps)
        Is(k, type) == Bool2Int(ps[k].pagetype = type)
    IN
    [nentry          |-> AggSum([k \in D |-> ps[k].ncell]),
     leaf_entries    |-> AggSum([k \in D |-> Is(k, "leaf") * ps[k].ncell]),
     payload         |-> AggSum([k \in D |-> ps[k].payload]),
     ovfl_payload    |-> AggSum([k \in D |-> Is(k, "overflow") * ps[k].payload]),
     ovfl_cnt        |-> AggSum([k \in D |-> Bool2Int(EndsInOvflMarker(ps[k].path))]),
     mx_payload      |-> AggMax([k \in D |-> ps[k].mx_payload]),
     int_pages       |-> AggSum([k \in D |-> Is(k, "internal")]),
     leaf_pages      |-> AggSum([k \in D |-> Is(k, "leaf")]),
     ovfl_pages      |-> AggSum([k \in D |-> Is(k, "overflow")]),
     int_unused      |-> AggSum([k \in D |-> Is(k, "internal") * ps[k].unused]),
     leaf_unused     |-> AggSum([k \in D |-> Is(k, "leaf") * ps[k].unused]),
     ovfl_unused     |-> AggSum([k \in D |-> Is(k, "overflow") * ps[k].unused]),
     compressed_size |-> AggSum([k \in D |-> ps[k].pgsize]),
     depth           |-> max_depth([k \in D |-> ps[k].path])]

\* _extract_sqlite_stats: the aggregate row, then is_without_rowid (which may
\* raise), then the gap count.
extract_sqlite_stats(table_name) ==
    LET wr == is_without_rowid(table_name) IN
    IF wr.err # "none" THEN [err |-> wr.err]
    ELSE [err |-> "none",
          stats |-> ExtractQuery(table_name),
          is_without_rowid |-> wr.val,
          gap_count |-> count_gaps(table_name)]

\* The row _compute_stats inserts for one catalog entry.
SpaceUsedRow(table, x) ==
    [name             |-> table.name,
     tblname          |-> table.tbl_name,
     is_index         |-> table.name # table.tbl_name,
     is_without_rowid |-> x.is_without_rowid,
     nentry           |-> x.stats.nentry,
     leaf_entries     |-> x.stats.leaf_entries,
     depth            |-> x.stats.depth,
     payload          |-> x.stats.payload,
     ovfl_payload     |-> x.stats.ovfl_payload,
     ovfl_cnt         |-> x.stats.ovfl_cnt,
     mx_payload       |-> x.stats.mx_payload,
     int_pages        |-> x.stats.int_pages,
     leaf_pages       |-> x.stats.leaf_pages,
     ovfl_pages       |-> x.stats.ovfl_pages,
     int_unused       |-> x.stats.int_unused,
     leaf_unused      |-> x.stats.leaf_unused,
     ovfl_unused      |-> x.stats.ovfl_unused,
     gap_cnt          |-> Val(x.gap_count),
     compressed_size  |-> x.stats.compressed_size]

\* The loop of _compute_stats from entry k on: the rows inserted, or the
\* exception that ends the constructor.
RECURSIVE ComputeStatsLoop(_, _, _)
ComputeStatsLoop(tables, k, rows) ==
    IF k > Len(tables) THEN [err |-> "none", rows |-> rows]
    ELSE LET x == extract_sqlite_stats(tables[k].name) IN
         IF x.err # "none" THEN [err |-> x.err, rows |-> rows]
         ELSE ComputeStatsLoop(tables, k + 1, Append(rows, SpaceUsedRow(tables[k], x)))

compute_stats == ComputeStatsLoop(Tables, 1, <<>>)

----------------------------------------------------------------------------
(* The derived metrics calculator *)

\* A percentage that reads an empty total as a full one
percentage_full_of_nothing(value, total) ==
    IF total = 0 THEN Frac(100, 1) ELSE Frac(100 * value, total)

\* _percentage(value, total)
percentage(value, total) == IF total = 0 THEN Zero ELSE Frac(100 * value, total)

\* The WHERE clauses the query methods build.
WhereName(n)    == [kind |-> "name", arg |-> n]
WhereTblname(n) == [kind |-> "tblname", arg |-> n]
WhereNotIndex   == [kind |-> "not_is_index", arg |-> ""]
WhereAll        == [kind |-> "1", arg |-> ""]
WhereIsIndex    == [kind |-> "is_index", arg |-> ""]

Matches(row, where) ==
    CASE where.kind = "name"         -> row.name = where.arg
      [] where.kind = "tblname"      -> row.tblname = where.arg
      [] where.kind = "not_is_index" -> ~row.is_index
      [] where.kind = "is_index"     -> row.is_index
      [] OTHER                       -> TRUE

Select(rows, where) == SelectSeq(rows, LAMBDA r : Matches(r, where))

\* The aggregate SELECT of _query_space_used_table over the rows of `su`.
SpaceUsedQuery(su, where) ==
    LET rows == Select(su, where)
        D == 1..Len(rows)
    IN
    [nentry          |-> SqlSum([k \in D |->
                             IF rows[k].is_without_rowid \/ rows[k].is_index
                             THEN rows[k].nentry ELSE rows[k].leaf_entries]),
     payload         |-> SqlSum([k \in D |-> rows[k].payload]),
     ovfl_payload    |-> SqlSum([k \in D |-> rows[k].ovfl_payload]),
     mx_payload      |-> SqlMax([k \in D |-> rows[k].mx_payload]),
     ovfl_cnt        |-> SqlSum([k \in D |-> rows[k].ovfl_cnt]),
     leaf_pages      |-> SqlSum([k \in D |-> rows[k].leaf_pages]),
     int_pages       |-> SqlSum([k \in D |-> rows[k].int_pages]),
     ovfl_pages      |-> SqlSum([k \in D |-> rows[k].ovfl_pages]),
     leaf_unused     |-> SqlSum([k \in D |-> rows[k].leaf_unused]),
     int_unused      |-> SqlSum([k \in D |-> rows[k].int_unused]),
     ovfl_unused     |-> SqlSum([k \in D |-> rows[k].ovfl_unused]),
     gap_cnt         |-> SqlSum([k \in D |-> rows[k].gap_cnt]),
     compressed_size |-> SqlSum([k \in D |-> rows[k].compressed_size]),
     depth           |-> SqlMax([k \in D |-> rows[k].depth]),
     cnt             |-> Len(rows)]

\* The columns the Python arithmetic reads: None in any of them raises TypeError.
ArithColumns == {"leaf_pages", "int_pages", "ovfl_pages", "compressed_size",
                 "payload", "ovfl_unused", "int_unused", "leaf_unused",
                 "ovfl_cnt", "nentry", "gap_cnt"}

\* A comparison that takes pages stored whole for compressed ones
StorageReaches(storage, compressed_size) == storage >= compressed_size

\* s['storage'] > s['compressed_size']
StorageExceeds(storage, compressed_size) == storage > compressed_size

\* 14 if s['is_compressed'] else 0
CompressedOverhead(is_compressed) == IF is_compressed THEN 14 ELSE 0

\* A metadata total without the correction for the overflow chains
TotalMetadataUncorrected(storage, payload, total_unused, ovfl_pages, ovfl_cnt) ==
    storage - payload - total_unused

\* s['total_metadata']
TotalMetadata(storage, payload, total_unused, ovfl_pages, ovfl_cnt) ==
    storage - payload - total_unused + 4 * (ovfl_pages - ovfl_cnt)

\* Averages that count an empty selection as one entry
AveragePerOneAtLeast(total, nentry) ==
    IF nentry = 0 THEN Frac(total, 1) ELSE Frac(total, nentry)

\* The averages: 0 when there is no entry, else total / nentry
Average(total, nentry) == IF nentry = 0 THEN Zero ELSE Frac(total, nentry)

\* A fragmentation taken over all the pages, the first one included
FragmentationOverAllPages(gap_cnt, total_pages) == percentage(gap_cnt, total_pages)

\* s['fragmentation']
Fragmentation(gap_cnt, total_pages) == percentage(gap_cnt, total_pages - 1)

\* The calculated values added to the aggregate row s (no None among ArithColumns).
Derived(s, psize, pcount) ==
    LET total_pages    == Get(s.leaf_pages) + Get(s.int_pages) + Get(s.ovfl_pages)
        storage        == total_pages * psize
        is_compressed  == StorageExceeds(storage, Get(s.compressed_size))
        total_unused   == Get(s.ovfl_unused) + Get(s.int_unused) + Get(s.leaf_unused)
        total_metadata == TotalMetadata(storage, Get(s.payload), total_unused,
                                        Get(s.ovfl_pages), Get(s.ovfl_cnt))
        nentry         == Get(s.nentry)
    IN  [nentry               |-> nentry,
         payload              |-> Get(s.payload),
         ovfl_payload         |-> s.ovfl_payload,
         mx_payload           |-> s.mx_payload,
         ovfl_cnt             |-> Get(s.ovfl_cnt),
         leaf_pages           |-> Get(s.leaf_pages),
         int_pages            |-> Get(s.int_pages),
         ovfl_pages           |-> Get(s.ovfl_pages),
         leaf_unused          |-> Get(s.leaf_unused),
         int_unused           |-> Get(s.int_unused),
         ovfl_unused          |-> Get(s.ovfl_unused),
         gap_cnt              |-> Get(s.gap_cnt),
         compressed_size      |-> Get(s.compressed_size),
         depth                |-> s.depth,
         cnt                  |-> s.cnt,
         total_pages          |-> total_pages,
         total_pages_percent  |-> percentage(total_pages, pcount),
         storage              |-> storage,
         is_compressed        |-> is_compressed,
         compressed_overhead  |-> CompressedOverhead(is_compressed),
         payload_percent      |-> percentage(Get(s.payload), storage),
         total_unused         |-> total_unused,
         total_metadata       |-> total_metadata,
         metadata_percent     |-> percentage(total_metadata, storage),
         average_payload      |-> Average(Get(s.payload), nentry),
         average_unused       |-> Average(total_unused, nentry),
         average_metadata     |-> Average(total_metadata, nentry),
         ovfl_percent         |-> percentage(Get(s.ovfl_cnt), nentry),
         fragmentation        |-> Fragmentation(Get(s.gap_cnt), total_pages),
         int_unused_percent   |-> percentage(Get(s.int_unused), Get(s.int_pages) * psize),
         ovfl_unused_percent  |-> percentage(Get(s.ovfl_unused), Get(s.ovfl_pages) * psize),
         leaf_unused_percent  |-> percentage(Get(s.leaf_unused), Get(s.leaf_pages) * psize),
         total_unused_percent |-> percentage(total_unused, storage)]

\* _query_space_used_table(where) on the rows `su`: the bundle, or TypeError
\* when the SELECT returned a None the arithmetic reads.
QueryBundle(su, where, psize, pcount) ==
    LET s == SpaceUsedQuery(su, where) IN
    IF \E c \in ArithColumns : IsNull(s[c])
    THEN [err |-> "TypeError", val |-> NULL]
    ELSE [err |-> "none", val |-> Derived(s, psize, pcount)]

query_space_used_table(where) == QueryBundle(space_used, where, page_size, page_count)

\* int_pages + leaf_pages + ovfl_pages of one row: NULL when a term is NULL.
RowPages(r) ==
    IF IsNull(r.int_pages) \/ IsNull(r.leaf_pages) \/ IsNull(r.ovfl_pages)
    THEN NULL
    ELSE Val(Get(r.int_pages) + Get(r.leaf_pages) + Get(r.ovfl_pages))

\* _query_page_count(name): the first selected row's page count
query_page_count(name) ==
    LET rows == Select(space_used, WhereName(name)) IN
    IF rows = <<>> THEN NULL ELSE RowPages(rows[1])

\* in_use_pages(): SELECT sum(leaf_pages+int_pages+ovfl_pages) FROM space_used
in_use_pages == SqlSum([k \in 1..Len(space_used) |-> RowPages(space_used[k])])

\* tables() and indices()
tables == {Tables[k].name : k \in {j \in 1..Len(Tables) : Tables[j].name = Tables[j].tbl_name}}
indices == SelectSeq(Tables, LAMBDA t : t.name # t.tbl_name)
IndexNames == {indices[k].name : k \in 1..Len(indices)}

----------------------------------------------------------------------------
(* The auxiliary estimators *)

\* page_size / 5 with page_size a float: the quotient itself, not its floor
pointers_per_page == Frac(page_size, 5)

\* ceil(n / (q + 1)) for a fraction q > 0
CeilOver(n, q) == CeilDiv(n * q.den, q.num + q.den)

\* autovacuum_page_count without the test of the auto-vacuum mode
autovacuum_page_count_any_mode ==
    IF page_count = 1 THEN 0
    ELSE CeilOver(page_count - 1, Frac(page_size, 5))

\* autovacuum_page_count()
autovacuum_page_count ==
    IF auto_vacuum = 0 \/ page_count = 1 THEN 0
    ELSE CeilOver(page_count - 1, pointers_per_page)

\* calculated_free_pages()
calculated_free_pages ==
    IF IsNull(in_use_pages) THEN [err |-> "TypeError", val |-> NULL]
    ELSE [err |-> "none",
          val |-> Val(page_count - Get(in_use_pages) - autovacuum_page_count)]

\* calculated_page_count()
calculated_page_count ==
    IF IsNull(in_use_pages) THEN [err |-> "TypeError", val |-> NULL]
    ELSE [err |-> "none",
          val |-> Val(Get(in_use_pages) + freelist + autovacuum_page_count)]

----------------------------------------------------------------------------
(* The analysed databases *)

MaxPage == 6        \* layout family: the table's pages lie in 2..MaxPage
MaxIdx == 2         \* schema family: at most MaxIdx indices on the table
MaxPageCount == 320 \* file family: files of 1..MaxPageCount pages
MaxValue == 12      \* helper family: values in -MaxValue..MaxValue, totals in 0..MaxValue
MaxCells == 2       \* content family: 0..MaxCells entries on a leaf page
MaxDepth == 3       \* path family: pages down to depth MaxDepth

PageSizes == {512, 1024}
PageTypes == {"internal", "leaf", "overflow"}

HexDigits == <<"0", "1", "2", "3", "4", "5", "6", "7",
               "8", "9", "a", "b", "c", "d", "e", "f">>
Seg(k) == <<"0", "0", HexDigits[k + 1]>>
RootPath == <<"/">>
ChildPath(parent, k) == parent \o Seg(k) \o <<"/">>
OvflPath(parent, cell, j) ==
    parent \o Seg(cell) \o <<"+", "0", "0", "0", "0", "0", HexDigits[j + 1]>>

\* dbstat writes a cell index in hexadecimal, on three digits at least
RECURSIVE Hex(_)
Hex(i) == IF i < 16 THEN <<HexDigits[i + 1]>>
          ELSE Hex(i \div 16) \o <<HexDigits[(i % 16) + 1]>>
Hex3(i) == [k \in 1..(3 - Len(Hex(i))) |-> "0"] \o Hex(i)

\* The cells descended through: the first, and the first whose index takes
\* four digits (a page of 32 KiB or more has room for such a cell)
CellIndexes == {0, 4096}

\* The paths of the pages down to depth d, and of the two first overflow
\* pages hanging from the first cell of such a page
RECURSIVE PagePaths(_)
PagePaths(d) ==
    IF d <= 1 THEN {RootPath}
    ELSE PagePaths(d - 1) \cup
         {p \o Hex3(i) \o <<"/">> : p \in PagePaths(d - 1), i \in CellIndexes}
OvflPaths(d) == {OvflPath(p, 0, j) : p \in PagePaths(d), j \in {0, 1}}

\* The paths of one or two page records of an object
PathSeqs ==
    LET P == PagePaths(MaxDepth) \cup OvflPaths(MaxDepth)
    IN  {<<p>> : p \in P} \cup {<<p, q>> : p \in P, q \in P}

\* One row of dbstat.  Cells, payload and unused bytes follow from the page
\* type: a leaf holds 3 entries, an internal page 2 keys, an overflow page none.
Page(name, pageno, pagetype, path, pgsize) ==
    [name       |-> name,
     path       |-> path,
     pageno     |-> pageno,
     pagetype   |-> pagetype,
     ncell      |-> CASE pagetype = "leaf" -> 3 [] pagetype = "internal" -> 2 [] OTHER -> 0,
     payload    |-> CASE pagetype = "leaf" -> 300 [] pagetype = "internal" -> 16 [] OTHER -> 400,
     unused     |-> CASE pagetype = "leaf" -> 100 [] pagetype = "internal" -> 200 [] OTHER -> 20,
     mx_payload |-> CASE pagetype = "leaf" -> 120 [] pagetype = "internal" -> 8 [] OTHER -> 0,
     pgsize     |-> pgsize]

MasterPage(pgsize) == Page("sqlite_master", 1, "leaf", RootPath, pgsize)

\* A b-tree on the page numbers DOMAIN f, page n of type f[n]: the first
\* internal page is the root, the others its children; leaves hang below the
\* lowest internal level; overflow pages form chains of two on the first leaf.
TreePages(name, f, pgsize) ==
    LET Rank(n) == Cardinality({m \in DOMAIN f : f[m] = f[n] /\ m < n})
        nInt == Cardinality({m \in DOMAIN f : f[m] = "internal"})
        LeafPath(r) == IF nInt = 0 THEN RootPath
                       ELSE IF nInt = 1 THEN ChildPath(RootPath, r)
                       ELSE ChildPath(ChildPath(RootPath, 0), r)
        PathOf(n) == CASE f[n] = "internal" ->
                            IF Rank(n) = 0 THEN RootPath ELSE ChildPath(RootPath, Rank(n) - 1)
                       [] f[n] = "leaf" -> LeafPath(Rank(n))
                       [] OTHER -> OvflPath(LeafPath(0), Rank(n) \div 2, Rank(n) % 2)
    IN  {Page(name, n, f[n], PathOf(n), pgsize) : n \in DOMAIN f}

\* A tree has a leaf, and more than one leaf only below an internal page.
WellFormed(f) ==
    \/ DOMAIN f = {}
    \/ /\ \E n \in DOMAIN f : f[n] = "leaf"
       /\ \/ \E n \in DOMAIN f : f[n] = "internal"
          \/ Cardinality({n \in DOMAIN f : f[n] = "leaf"}) = 1

Layouts(pagenos) ==
    {f \in UNION {[S -> PageTypes] : S \in SUBSET pagenos} : WellFormed(f)}

\* The pointer-map pages of a file of n pages: page 2, then one after every
\* psize \div 5 other pages.
PtrmapPages(n, psize) ==
    Cardinality({q \in 2..n : (q - 2) % (psize \div 5 + 1) = 0})

InUse(db) == Cardinality(db)

Entry(name, tbl_name) == [name |-> name, tbl_name |-> tbl_name]

Fresh ==
    /\ pc = "new"
    /\ space_used = <<>>
    /\ iscompresed = NULL
    /\ result = [op |-> "none", arg |-> "", err |-> "none", val |-> NULL]

\* One table whose b-tree takes any well-formed layout on pages 2..MaxPage.
InitLayout ==
    /\ \E f \in Layouts(2..MaxPage) :
          dbstat = {MasterPage(1024)} \cup TreePages("t", f, 1024)
    /\ sqlite_master = <<Entry("t", "t")>>
    /\ index_lists = [n \in {"t"} |-> <<>>]
    /\ page_size = 1024
    /\ page_count = MaxPage
    /\ auto_vacuum = 0
    /\ freelist = page_count - InUse(dbstat)
    /\ Fresh

\* The indices a table "t" may have: its primary key's (listed in the catalog
\* for a rowid table, not listed for a WITHOUT ROWID table), one made by
\* CREATE INDEX, one of a UNIQUE constraint.
IndexPool == {[name |-> "sqlite_autoindex_t_1", origin |-> "pk"],
              [name |-> "t_idx", origin |-> "c"],
              [name |-> "sqlite_autoindex_t_2", origin |-> "u"]}

IndexLists ==
    {s \in UNION {[1..n -> IndexPool] : n \in 0..MaxIdx} :
        \A j, k \in DOMAIN s : j # k => s[j] # s[k]}

\* Page menu of the schema family: no page record, a root leaf, or a root
\* with two leaves and an overflow page.
MenuLayout(c, base) ==
    CASE c = 0 -> <<>>
      [] c = 1 -> (base :> "leaf")
      [] OTHER -> (base :> "internal") @@ (base + 1 :> "leaf")
                  @@ (base + 2 :> "leaf") @@ (base + 3 :> "overflow")

InitSchema ==
    /\ \E il \in IndexLists, pk_listed \in BOOLEAN :
          LET listed == SelectSeq(il, LAMBDA x : x.origin # "pk" \/ pk_listed)
              cat == <<Entry("t", "t")>> \o [k \in 1..Len(listed) |-> Entry(listed[k].name, "t")]
          IN  /\ sqlite_master = cat
              /\ index_lists = [n \in {"t"} |-> il]
              /\ page_count = 1 + 4 * Len(cat)
              /\ \E menu \in [1..Len(cat) -> 0..2] :
                    dbstat = {MasterPage(1024)} \cup
                             UNION {TreePages(cat[k].name,
                                              MenuLayout(menu[k], 4 * k - 2), 1024)
                                    : k \in 1..Len(cat)}
    /\ page_size = 1024
    /\ auto_vacuum = 0
    /\ freelist = page_count - InUse(dbstat)
    /\ Fresh

\* Files of every size and auto-vacuum mode: the catalog's pages, the
\* pointer-map pages when auto-vacuum is on, and the rest on the free list.
InitFile ==
    /\ page_size \in PageSizes
    /\ page_count \in 1..MaxPageCount
    /\ auto_vacuum \in {0, 1, 2}
    /\ sqlite_master = IF page_count >= 3 THEN <<Entry("t", "t")>> ELSE <<>>
    /\ index_lists = [n \in {"t"} |-> <<>>]
    /\ dbstat = {MasterPage(page_size)} \cup
                (IF page_count >= 3 THEN TreePages("t", 3 :> "leaf", page_size) ELSE {})
    /\ freelist = page_count - InUse(dbstat)
                  - (IF auto_vacuum = 0 THEN 0 ELSE PtrmapPages(page_count, page_size))
    /\ Fresh

\* A leaf page holding `cells` entries of 100 bytes, 6 bytes of cell header
\* and pointer each, behind the 8 bytes of the page header; the pages of
\* other types as Page makes them.
Filled(p, cells) ==
    IF p.pagetype # "leaf" THEN p
    ELSE [p EXCEPT !.ncell = cells,
                   !.payload = 100 * cells,
                   !.unused = 1016 - 106 * cells,
                   !.mx_payload = IF cells = 0 THEN 0 ELSE 100]

\* What an object of the content family holds: a root leaf of 0..MaxCells
\* entries (0: an empty table), or a root above two leaves of 1..MaxCells
\* entries each with an overflow page.
Contents ==
    {[menu |-> 1, cells |-> c] : c \in 0..MaxCells} \cup
    {[menu |-> 2, cells |-> c] : c \in 1..MaxCells}

\* A table "t", with or without the index of its primary key; each object
\* with any content, its pages stored whole or compressed to half a page.
InitContent ==
    /\ \E with_index \in BOOLEAN :
          LET cat == <<Entry("t", "t")>> \o
                     (IF with_index THEN <<Entry("sqlite_autoindex_t_1", "t")>> ELSE <<>>)
          IN  /\ sqlite_master = cat
              /\ index_lists = [n \in {"t"} |->
                                  IF with_index
                                  THEN <<[name |-> "sqlite_autoindex_t_1", origin |-> "pk"]>>
                                  ELSE <<>>]
              /\ page_count = 1 + 4 * Len(cat)
              /\ \E content \in [1..Len(cat) -> Contents],
                    zipped \in [1..Len(cat) -> BOOLEAN] :
                    dbstat = {MasterPage(1024)} \cup
                             UNION {{Filled(p, content[k].cells) :
                                       p \in TreePages(cat[k].name,
                                                       MenuLayout(content[k].menu, 4 * k - 2),
                                                       IF zipped[k] THEN 512 ELSE 1024)}
                                    : k \in 1..Len(cat)}
    /\ page_size = 1024
    /\ auto_vacuum = 0
    /\ freelist = page_count - InUse(dbstat)
    /\ Fresh

\* An empty database, for the calls of the static helpers, which read none.
InitStatic ==
    /\ sqlite_master = <<>>
    /\ index_lists = [n \in {"t"} |-> <<>>]
    /\ dbstat = {MasterPage(1024)}
    /\ page_size = 1024
    /\ page_count = 1
    /\ auto_vacuum = 0
    /\ freelist = 0
    /\ Fresh

Init == InitLayout \/ InitSchema \/ InitFile \/ InitContent \/ InitStatic

----------------------------------------------------------------------------
(* Operations *)

Call(op, arg, r) == [op |-> op, arg |-> arg, err |-> r.err, val |-> r.val]
Ok(v) == [err |-> "none", val |-> v]

\* A query that consumes the rows it selects
StatDbConsumed(su, where) == SelectSeq(su, LAMBDA r : ~Matches(r, where))

\* What a query method does to the stat database: its SELECTs write nothing.
StatDbAfterQuery(su, where) == su

\* SQLite3Analyzer(db_path): _compute_stats fills space_used; an exception
\* raised on the way ends the constructor and no analyzer exists.
Construct ==
    /\ pc = "new"
    /\ LET r == compute_stats IN
          /\ pc' = IF r.err = "none" THEN "ready" ELSE "failed"
          /\ space_used' = r.rows
          /\ result' = Call("construct", "", [err |-> r.err, val |-> NULL])
    /\ UNCHANGED <<dbvars, iscompresed>>

\* table_stats(name, exclude_indices)
table_stats(name, exclude_indices) ==
    query_space_used_table(IF exclude_indices THEN WhereName(name) ELSE WhereTblname(name))

TableStats ==
    /\ pc = "ready"
    /\ \E name \in tables, exclude_indices \in BOOLEAN :
          /\ result' = Call("table_stats", <<name, exclude_indices>>,
                            table_stats(name, exclude_indices))
          /\ space_used' = StatDbAfterQuery(space_used, WhereTblname(name))
    /\ UNCHANGED <<dbvars, pc, iscompresed>>

\* index_stats(name)
IndexStats ==
    /\ pc = "ready"
    /\ \E name \in IndexNames :
          /\ result' = Call("index_stats", name, query_space_used_table(WhereName(name)))
          /\ space_used' = StatDbAfterQuery(space_used, WhereName(name))
    /\ UNCHANGED <<dbvars, pc, iscompresed>>

\* global_stats(exclude_indices)
global_stats(exclude_indices) ==
    query_space_used_table(IF exclude_indices THEN WhereNotIndex ELSE WhereAll)

GlobalStats ==
    /\ pc = "ready"
    /\ \E exclude_indices \in BOOLEAN :
          result' = Call("global_stats", exclude_indices, global_stats(exclude_indices))
    /\ space_used' = StatDbAfterQuery(space_used, WhereAll)
    /\ UNCHANGED <<dbvars, pc, iscompresed>>

\* indices_stats()
indices_stats == query_space_used_table(WhereIsIndex)

IndicesStats ==
    /\ pc = "ready"
    /\ result' = Call("indices_stats", "", indices_stats)
    /\ space_used' = StatDbAfterQuery(space_used, WhereIsIndex)
    /\ UNCHANGED <<dbvars, pc, iscompresed>>

\* table_page_count(name, exclude_indices)
table_page_count(name, exclude_indices) ==
    IF exclude_indices
    THEN LET r == table_stats(name, TRUE) IN
         IF r.err # "none" THEN r ELSE Ok(Val(r.val.total_pages))
    ELSE Ok(query_page_count(name))

TablePageCount ==
    /\ pc = "ready"
    /\ \E name \in tables, exclude_indices \in BOOLEAN :
          /\ result' = Call("table_page_count", <<name, exclude_indices>>,
                            table_page_count(name, exclude_indices))
          /\ space_used' = StatDbAfterQuery(space_used, WhereName(name))
    /\ UNCHANGED <<dbvars, pc, iscompresed>>

\* index_page_count(name)
IndexPageCount ==
    /\ pc = "ready"
    /\ \E name \in IndexNames :
          /\ result' = Call("index_page_count", name, Ok(query_page_count(name)))
          /\ space_used' = StatDbAfterQuery(space_used, WhereName(name))
    /\ UNCHANGED <<dbvars, pc, iscompresed>>

\* in_use_pages()
InUsePages ==
    /\ pc = "ready"
    /\ result' = Call("in_use_pages", "", Ok(in_use_pages))
    /\ space_used' = StatDbAfterQuery(space_used, WhereAll)
    /\ UNCHANGED <<dbvars, pc, iscompresed>>

\* is_compressed(): _is_compressed stays None, so every call pops some table,
\* asks its bundle and assigns _iscompresed.
IsCompressed ==
    /\ pc = "ready"
    /\ \E table \in tables :
          LET r == table_stats(table, FALSE) IN
          /\ iscompresed' = IF r.err = "none" THEN Val(r.val.is_compressed) ELSE iscompresed
          /\ result' = Call("is_compressed", "",
                            IF r.err = "none" THEN Ok(Val(r.val.is_compressed)) ELSE r)
          /\ space_used' = StatDbAfterQuery(space_used, WhereTblname(table))
    /\ UNCHANGED <<dbvars, pc>>

\* The binary collation on the names of tables that own objects here.
NameRank(n) == CASE n = "sqlite_master" -> 1 [] n = "t" -> 2 [] OTHER -> 3

\* One row of the GROUP BY of _all_tables_usage / the SELECT of _table_space_usage
UsageRow(su, tblname) ==
    LET rows == Select(su, WhereTblname(tblname)) IN
    [name |-> tblname, count |-> Len(rows), size |-> SqlSum([k \in 1..Len(rows) |-> RowPages(rows[k])])]

\* ORDER BY size+0 DESC, tblname: NULL sizes sort last
UsageBefore(a, b) ==
    \/ ~IsNull(a.size) /\ IsNull(b.size)
    \/ ~IsNull(a.size) /\ ~IsNull(b.size) /\ Get(a.size) > Get(b.size)
    \/ a.size = b.size /\ NameRank(a.name) < NameRank(b.name)

RECURSIVE SortUsage(_)
SortUsage(S) ==
    IF S = {} THEN <<>>
    ELSE LET a == CHOOSE x \in S : \A y \in S \ {x} : UsageBefore(x, y)
         IN  <<a>> \o SortUsage(S \ {a})

all_tables_usage ==
    SortUsage({UsageRow(space_used, space_used[k].tblname) : k \in 1..Len(space_used)})

\* table_space_usage(table): one table's row, or every table's when table is None
TableSpaceUsage ==
    /\ pc = "ready"
    /\ \/ result' = Call("table_space_usage", "", Ok(all_tables_usage))
       \/ \E table \in tables :
             result' = Call("table_space_usage", table, Ok(UsageRow(space_used, table)))
    /\ space_used' = StatDbAfterQuery(space_used, WhereAll)
    /\ UNCHANGED <<dbvars, pc, iscompresed>>

\* autovacuum_page_count()
AutovacuumPageCount ==
    /\ pc = "ready"
    /\ result' = Call("autovacuum_page_count", "", Ok(autovacuum_page_count))
    /\ UNCHANGED <<dbvars, pc, space_used, iscompresed>>

\* calculated_free_pages()
CalculatedFreePages ==
    /\ pc = "ready"
    /\ result' = Call("calculated_free_pages", "", calculated_free_pages)
    /\ UNCHANGED <<dbvars, pc, space_used, iscompresed>>

\* calculated_page_count()
CalculatedPageCount ==
    /\ pc = "ready"
    /\ result' = Call("calculated_page_count", "", calculated_page_count)
    /\ UNCHANGED <<dbvars, pc, space_used, iscompresed>>

\* is_without_rowid(table), called on a constructed analyzer
IsWithoutRowid ==
    /\ pc = "ready"
    /\ \E table \in tables :
          result' = Call("is_without_rowid", table, is_without_rowid(table))
    /\ UNCHANGED <<dbvars, pc, space_used, iscompresed>>

\* The depth column of _extract_sqlite_stats, on the paths of any page records
ExtractDepth ==
    /\ \E paths \in PathSeqs :
          result' = Call("depth", paths, Ok(max_depth(paths)))
    /\ UNCHANGED <<dbvars, pc, space_used, iscompresed>>

\* The index lists of the stat database: its one table, space_used, is
\* created without a key or an index.
stat_index_lists == [n \in {"space_used"} |-> <<>>]

\* index_list(table): PRAGMA index_list on the stat database; a table the
\* database does not hold has no row.
index_list(table) ==
    IF table \in DOMAIN stat_index_lists THEN stat_index_lists[table] ELSE <<>>

IndexList ==
    /\ pc = "ready"
    /\ \E table \in tables :
          result' = Call("index_list", table, Ok(index_list(table)))
    /\ UNCHANGED <<dbvars, pc, space_used, iscompresed>>

\* str.upper() on the names of the catalog
UpperName(n) ==
    CASE n = "t"                    -> "T"
      [] n = "t_idx"                -> "T_IDX"
      [] n = "sqlite_master"        -> "SQLITE_MASTER"
      [] n = "sqlite_autoindex_t_1" -> "SQLITE_AUTOINDEX_T_1"
      [] n = "sqlite_autoindex_t_2" -> "SQLITE_AUTOINDEX_T_2"
      [] OTHER                      -> n

\* The order of sorted() on the names of the indices
IndexRank(n) ==
    CASE n = "sqlite_autoindex_t_1" -> 1
      [] n = "sqlite_autoindex_t_2" -> 2
      [] OTHER                      -> 3

RECURSIVE SortByName(_)
SortByName(S) ==
    IF S = {} THEN <<>>
    ELSE LET a == CHOOSE x \in S : \A y \in S : IndexRank(x.name) <= IndexRank(y.name)
         IN  <<a>> \o SortByName(S \ {a})

\* One section of the report: its title line, then the lines of
\* _print_stats(stats); an exception raised by the query of the bundle
\* leaves the title printed and ends the report.
Section(title, stats) ==
    IF stats.err = "none"
    THEN [err |-> "none", out |-> <<[title |-> title, stats |-> stats.val]>>]
    ELSE [err |-> stats.err, out |-> <<[title |-> title, stats |-> NULL]>>]

\* The sections printed one after the other, up to the first exception
RECURSIVE Sections(_)
Sections(parts) ==
    IF parts = <<>> THEN [err |-> "none", out |-> <<>>]
    ELSE IF Head(parts).err # "none" THEN Head(parts)
    ELSE LET rest == Sections(Tail(parts))
         IN  [err |-> rest.err, out |-> Head(parts).out \o rest.out]

\* SQLite3ClassicReport.table_details(table)
table_details(table) ==
    LET table_name == UpperName(table)
        listed == index_list(table)
        sorted == SortByName({listed[k] : k \in 1..Len(listed)})
    IN  IF listed = <<>>
        THEN Section(<<"Table", table_name>>, table_stats(table, FALSE))
        ELSE Sections(
               <<Section(<<"Table", table_name, "and all its indices">>,
                         table_stats(table, FALSE)),
                 Section(<<"Table", table_name, "w/o any indices">>,
                         table_stats(table, TRUE))>>
               \o [k \in 1..Len(sorted) |->
                     Section(<<"Index", table_name, "of table", UpperName(sorted[k].name)>>,
                             query_space_used_table(WhereName(sorted[k].name)))])

TableDetails ==
    /\ pc = "ready"
    /\ \E table \in tables :
          LET r == table_details(table) IN
          result' = Call("table_details", table, [err |-> r.err, val |-> r.out])
    /\ UNCHANGED <<dbvars, pc, space_used, iscompresed>>

\* SQLite3ClassicReport._percentage(value, total)
report_percentage(value, total) == IF total = 0 THEN Zero ELSE Frac(100 * value, total)

\* SQLite3Analyzer._percentage(value, total), a static method
Percentage ==
    /\ \E value \in -MaxValue..MaxValue, total \in 0..MaxValue :
          result' = Call("_percentage", <<value, total>>, Ok(percentage(value, total)))
    /\ UNCHANGED <<dbvars, pc, space_used, iscompresed>>

\* SQLite3ClassicReport._percentage(value, total), a static method
ReportPercentage ==
    /\ \E value \in -MaxValue..MaxValue, total \in 0..MaxValue :
          result' = Call("report._percentage", <<value, total>>,
                         Ok(report_percentage(value, total)))
    /\ UNCHANGED <<dbvars, pc, space_used, iscompresed>>

Next ==
    \/ Construct
    \/ TableStats
    \/ IndexStats
    \/ GlobalStats
    \/ IndicesStats
    \/ TablePageCount
    \/ IndexPageCount
    \/ InUsePages
    \/ IsCompressed
    \/ TableSpaceUsage
    \/ AutovacuumPageCount
    \/ CalculatedFreePages
    \/ CalculatedPageCount
    \/ IsWithoutRowid
    \/ IndexList
    \/ TableDetails

Spec == Init /\ [][Next]_vars

\* The calls that read one table's layout
NextLayout ==
    \/ Construct
    \/ TableStats
    \/ GlobalStats
    \/ TablePageCount

SpecLayout == InitLayout /\ [][NextLayout]_vars

\* Every call, on the schemas of InitSchema
SpecSchema == InitSchema /\ [][Next]_vars

\* The calls that count the file's pages
NextFile ==
    \/ Construct
    \/ InUsePages
    \/ AutovacuumPageCount
    \/ CalculatedFreePages
    \/ CalculatedPageCount

SpecFile == InitFile /\ [][NextFile]_vars

\* The calls that derive a bundle or read one
NextContent ==
    \/ Construct
    \/ TableStats
    \/ IndexStats
    \/ GlobalStats
    \/ IndicesStats
    \/ IsCompressed

SpecContent == InitContent /\ [][NextContent]_vars

\* The static helpers, called on any values
NextStatic ==
    \/ Percentage
    \/ ReportPercentage

SpecStatic == InitStatic /\ [][NextStatic]_vars

\* The depth of page records of any path
NextPaths == ExtractDepth

SpecPaths == InitStatic /\ [][NextPaths]_vars

----------------------------------------------------------------------------
(* Properties *)

Ready == pc = "ready"

PageNos(name) == {p.pageno : p \in {q \in dbstat : q.name = name}}
LeafNos(name) == {p.pageno : p \in {q \in dbstat : q.name = name /\ q.pagetype = "leaf"}}
TypeNos(name, type) ==
    {p.pageno : p \in {q \in dbstat : q.name = name /\ q.pagetype = type}}
Min(S) == CHOOSE n \in S : \A m \in S : n <= m
Max(S) == CHOOSE n \in S : \A m \in S : n >= m
Consecutive(S) == S = {} \/ S = Min(S)..Max(S)
RowNames == {space_used[k].name : k \in 1..Len(space_used)}
RowOf(name) == space_used[CHOOSE k \in 1..Len(space_used) : space_used[k].name = name]

\* C1, as stated: an object whose leaf pages carry consecutive page numbers
\* has gap count 0, whatever its internal and overflow pages.
C1_LeafConsecutiveNoGap ==
    Ready => \A n \in RowNames :
                Consecutive(LeafNos(n)) => RowOf(n).gap_cnt = Val(0)

\* The lowest leaf page is the object's first page or directly follows one
\* of its pages.
FirstLeafFollows(n) ==
    LeafNos(n) # {} =>
        \/ Min(LeafNos(n)) = Min(PageNos(n))
        \/ Min(LeafNos(n)) - 1 \in PageNos(n)

\* C1, amended: an object whose leaf pages carry consecutive page numbers,
\* the lowest of them being the object's first page or directly following
\* another of its pages, has gap count 0, whatever its other internal and
\* overflow pages.
C1_NoGap ==
    Ready => \A n \in RowNames :
                (Consecutive(LeafNos(n)) /\ FirstLeafFollows(n))
                    => RowOf(n).gap_cnt = Val(0)

\* C1 witness: a tree of consecutive leaves behind an internal page, with an
\* overflow page set apart from them, counted as gap-free.
C1_Witness ==
    /\ Ready
    /\ Cardinality(LeafNos("t")) >= 2
    /\ Consecutive(LeafNos("t")) /\ FirstLeafFollows("t")
    /\ Min(LeafNos("t")) # Min(PageNos("t"))
    /\ ~Consecutive(PageNos("t"))
    /\ RowOf("t").gap_cnt = Val(0)

\* The gap count of visiting the leaf pages alone.
LeafOnlyGaps(n) ==
    Cardinality({q \in LeafNos(n) : q # Min(LeafNos(n)) /\ q - 1 \notin LeafNos(n)})

\* C2, as stated: the gap count is that of visiting only the leaf pages in
\* ascending order, internal and overflow pages not moving the cursor.
C2_LeafOnlyCursor ==
    Ready => \A n \in RowNames : RowOf(n).gap_cnt = Val(LeafOnlyGaps(n))

\* The gap count of visiting every page: a leaf page is charged when it is not
\* the object's first page and the page number before it is not the object's.
AllPagesGaps(n) ==
    Cardinality({q \in LeafNos(n) : q # Min(PageNos(n)) /\ q - 1 \notin PageNos(n)})

\* C2, amended: the gap count is that of visiting all the object's pages in
\* ascending order, charging one gap for each leaf page whose number is not
\* one greater than the page visited before it (of any type), none for the
\* first page; internal and overflow pages add no gap but move the cursor.
C2_GapCount ==
    Ready => \A n \in RowNames : RowOf(n).gap_cnt = Val(AllPagesGaps(n))

\* C2 witness: leaves directly behind the root with one page skipped among
\* them give a gap count of 1.
C2_Witness ==
    /\ Ready
    /\ TypeNos("t", "internal") = {2}
    /\ LeafNos("t") = {3, 4, 6}
    /\ TypeNos("t", "overflow") = {}
    /\ RowOf("t").gap_cnt = Val(1)

\* C3, as stated: for any schema the "all tables" and the "all indices"
\* bundles are both produced without error, and their total_pages and payload
\* add up to those of the "everything" bundle.
C3_TablesPlusIndices ==
    Ready =>
        LET t == global_stats(TRUE)
            i == indices_stats
            g == global_stats(FALSE)
        IN  /\ t.err = "none" /\ i.err = "none" /\ g.err = "none"
            /\ t.val.total_pages + i.val.total_pages = g.val.total_pages
            /\ t.val.payload + i.val.payload = g.val.payload

\* What C4 says is_without_rowid returns: some index of the table has origin
\* primary key and its own name is no object of the catalog.
PkIndexNotListed(table) ==
    \E k \in 1..Len(IndexListOf(table)) :
        /\ IndexListOf(table)[k].origin = "pk"
        /\ CountMaster(IndexListOf(table)[k].name) = 0

\* C4, as stated: is_without_rowid(table) is True exactly when the table has
\* a primary-key index whose own name is not in the catalog.
C4_WithoutRowidExactly ==
    (result.op = "is_without_rowid" /\ result.err = "none")
        => result.val = PkIndexNotListed(result.arg)

\* C5, as stated: WITHOUT ROWID detection never fails the analysis pass,
\* whatever the table's index list.
C5_DetectionNeverFails ==
    result.op = "construct" => result.err = "none"

\* C6, as stated: with auto-vacuum on and more than one page the overhead is
\* ceil((page_count - 1) / (floor(page_size / 5) + 1)).
C6_FloorPointersPerPage ==
    (result.op = "autovacuum_page_count" /\ auto_vacuum # 0 /\ page_count > 1)
        => result.val = CeilDiv(page_count - 1, page_size \div 5 + 1)

\* C7: autovacuum_page_count() is 0 whenever auto-vacuum is off, for every
\* page count and page size, and whenever the file has exactly one page.
C7_ZeroWhenOff ==
    (result.op = "autovacuum_page_count" /\ (auto_vacuum = 0 \/ page_count = 1))
        => (result.err = "none" /\ result.val = 0)

\* C7 witness: the largest file, auto-vacuum off, reported without overhead.
C7_Witness ==
    /\ result.op = "autovacuum_page_count"
    /\ auto_vacuum = 0
    /\ page_count = MaxPageCount
    /\ result.val = 0

SumColumns == {"nentry", "leaf_entries", "payload", "ovfl_payload", "ovfl_cnt",
               "int_pages", "leaf_pages", "ovfl_pages", "int_unused",
               "leaf_unused", "ovfl_unused", "compressed_size"}

Percentages == {"total_pages_percent", "payload_percent", "metadata_percent",
                "ovfl_percent", "fragmentation", "int_unused_percent",
                "ovfl_unused_percent", "leaf_unused_percent", "total_unused_percent"}

Averages == {"average_payload", "average_unused", "average_metadata"}

\* C8, as stated: an object without page records gets a row of zero sums, and
\* its bundle is produced without error, with no page and every percentage
\* and average 0.
C8_EmptyObjectAllZero ==
    Ready => \A n \in RowNames :
        PageNos(n) = {} =>
            /\ \A c \in SumColumns : RowOf(n)[c] = Val(0)
            /\ LET b == query_space_used_table(WhereName(n)) IN
                  /\ b.err = "none"
                  /\ b.val.total_pages = 0
                  /\ \A c \in Percentages \cup Averages : b.val[c] = Zero

\* C9, as stated: the file being made of the pages in use, the free list and
\* the pointer-map pages, calculated_free_pages() is freelist_count() and
\* calculated_page_count() is page_count().
C9_FreePagesMatch ==
    /\ result.op = "calculated_free_pages"
          => (result.err = "none" /\ result.val = Val(freelist))
    /\ result.op = "calculated_page_count"
          => (result.err = "none" /\ result.val = Val(page_count))

BundleOps == {"table_stats", "index_stats", "global_stats", "indices_stats"}

\* C10: on a constructed analyzer no call changes, adds or removes a row of
\* space_used, and a bundle query asked again returns the same bundle.
C10_StoreImmutable ==
    [][Ready =>
         /\ space_used' = space_used
         /\ (/\ result.op \in BundleOps
             /\ result'.op = result.op
             /\ result'.arg = result.arg)
                => (/\ result'.err = result.err
                    /\ result.err = "none" => result'.val = result.val)]_vars

\* C10 witness: a bundle answered after is_compressed() had run, the store
\* still holding the rows of the constructor.
C10_Witness ==
    /\ Ready
    /\ ~IsNull(iscompresed)
    /\ result.op = "index_stats"
    /\ result.err = "none"
    /\ Len(space_used) >= 3
    /\ space_used = compute_stats.rows

\* C11: _percentage(value, 0) is 0 for every value, value 0 included, and
\* _percentage(value, total) lies in [0, 100] whenever 0 <= value <= total
\* and total > 0; so for the analyzer's copy and for the report's.
C11_PercentageRange ==
    result.op \in {"_percentage", "report._percentage"} =>
        LET value == result.arg[1]
            total == result.arg[2]
            p == result.val
        IN  /\ result.err = "none"
            /\ total = 0 => p.num = 0
            /\ (0 <= value /\ value <= total /\ total > 0) =>
                  (p.den > 0 /\ 0 <= p.num /\ p.num <= 100 * p.den)

\* C11 witness: the percentage of nothing out of nothing is 0.
C11_Witness ==
    /\ result.op = "_percentage"
    /\ result.arg = <<0, 0>>
    /\ result.val = Zero

\* A bundle produced without error
Bundle == result.op \in BundleOps /\ result.err = "none"

\* C12: in a bundle whose summed entry count is 0 the three averages are 0,
\* with no division error; otherwise each average is its total divided by
\* the entry count.
C12_AveragesGuarded ==
    result.op \in BundleOps =>
        /\ result.err \in {"none", "TypeError"}
        /\ result.err = "none" =>
              LET b == result.val
                  IsQuotient(avg, total) ==
                      IF b.nentry = 0 THEN avg = Zero
                      ELSE avg.den > 0 /\ avg.num * b.nentry = total * avg.den
              IN  /\ IsQuotient(b.average_payload, b.payload)
                  /\ IsQuotient(b.average_unused, b.total_unused)
                  /\ IsQuotient(b.average_metadata, b.total_metadata)

\* C12 witness: the bundle of an empty table, a leaf page of unused bytes
\* and no entry, its averages 0.
C12_Witness ==
    /\ Bundle
    /\ result.val.nentry = 0
    /\ result.val.total_unused > 0
    /\ result.val.average_unused = Zero

\* The objects a bundle call selects, read from the catalog
Selected(op, arg) ==
    LET all == {Tables[k].name : k \in 1..Len(Tables)} IN
    CASE op = "table_stats" ->
             IF arg[2] THEN {arg[1]}
             ELSE {Tables[k].name : k \in {j \in 1..Len(Tables) : Tables[j].tbl_name = arg[1]}}
      [] op = "index_stats"   -> {arg}
      [] op = "global_stats"  -> IF arg THEN all \ IndexNames ELSE all
      [] op = "indices_stats" -> IndexNames
      [] OTHER -> {}

PageRecords(names) == {p \in dbstat : p.name \in names}

RECURSIVE SumField(_, _)
SumField(S, c) ==
    IF S = {} THEN 0
    ELSE LET p == CHOOSE x \in S : TRUE IN p[c] + SumField(S \ {p}, c)

\* The entries of one object: the cells of all its pages for an index or a
\* WITHOUT ROWID table, of its leaf pages for a rowid table.
EntriesOf(n) ==
    IF n \in IndexNames \/ PkIndexNotListed(n)
    THEN SumField(PageRecords({n}), "ncell")
    ELSE SumField({p \in PageRecords({n}) : p.pagetype = "leaf"}, "ncell")

RECURSIVE SumEntries(_)
SumEntries(N) ==
    IF N = {} THEN 0
    ELSE LET n == CHOOSE x \in N : TRUE IN EntriesOf(n) + SumEntries(N \ {n})

\* C13, as stated: a bundle's nentry adds, per selected object, the cells of
\* all its pages for an index or a WITHOUT ROWID table and the cells of its
\* leaf pages for a rowid table.
C13_EntryCount ==
    Bundle => result.val.nentry = SumEntries(Selected(result.op, result.arg))

\* The path ends in an overflow marker: '+' and six digits
OnOverflowChain(path) == Len(path) >= 7 /\ path[Len(path) - 6] = "+"

\* The page records that are not on an overflow chain
TreeRecords(paths) == {k \in DOMAIN paths : ~OnOverflowChain(paths[k])}

\* C14, as stated: the stored depth is the maximum, over exactly the page
\* records whose path does not end in an overflow marker, of
\* ceil((path_length + 3) / 4), for every path length.
C14_DepthCeil ==
    (result.op = "depth" /\ TreeRecords(result.arg) # {}) =>
        result.val = Val(Max({CeilDiv(Len(result.arg[k]) + 3, 4) :
                                k \in TreeRecords(result.arg)}))

\* C14, amended: the stored depth is the maximum, over the page records
\* whose path does not end in an overflow marker, of (path_length + 3)
\* divided by 4 and rounded down, 0 when all records are on overflow chains.
C14_DepthFloor ==
    result.op = "depth" =>
        result.val = Val(Max({0} \cup {(Len(result.arg[k]) + 3) \div 4 :
                                         k \in TreeRecords(result.arg)}))

\* C14 witness: the depth 2 of a page below cell 4096 of the root, '/1000/',
\* an overflow page of a longer path beside it.
C14_Witness ==
    /\ result.op = "depth"
    /\ result.arg = <<RootPath \o Hex3(4096) \o <<"/">>, OvflPath(RootPath, 0, 0)>>
    /\ result.val = Val(2)

\* C15: a bundle of exactly one page has fragmentation 0, with no division
\* error; in general the fragmentation is the percentage of the gap count
\* in the total pages less one.
C15_FragmentationGuarded ==
    result.op \in BundleOps =>
        /\ result.err \in {"none", "TypeError"}
        /\ result.err = "none" =>
              LET b == result.val
                  f == b.fragmentation
              IN  IF b.total_pages = 1 THEN f = Zero
                  ELSE /\ f.den > 0
                       /\ f.num * (b.total_pages - 1) = 100 * b.gap_cnt * f.den

\* C15 witness: the bundle of a table of one leaf page, fragmentation 0.
C15_Witness ==
    /\ Bundle
    /\ result.op = "table_stats"
    /\ result.arg = <<"t", TRUE>>
    /\ result.val.total_pages = 1
    /\ result.val.fragmentation = Zero

\* C16: in every bundle total_metadata is storage - payload - total_unused
\* + 4 * (ovfl_pages - ovfl_cnt), the storage being the pages of the three
\* types times the page size and total_unused the unused bytes of the three
\* types; so payload + total_unused + total_metadata is the storage plus
\* the correction.
C16_MetadataIdentity ==
    Bundle =>
        LET b == result.val
            P == PageRecords(Selected(result.op, result.arg))
            correction == 4 * (b.ovfl_pages - b.ovfl_cnt)
        IN  /\ b.leaf_pages + b.int_pages + b.ovfl_pages = Cardinality(P)
            /\ b.storage = (b.leaf_pages + b.int_pages + b.ovfl_pages) * page_size
            /\ b.total_unused = b.int_unused + b.leaf_unused + b.ovfl_unused
            /\ b.total_unused = SumField(P, "unused")
            /\ b.payload = SumField(P, "payload")
            /\ b.total_metadata = b.storage - b.payload - b.total_unused + correction
            /\ b.payload + b.total_unused + b.total_metadata = b.storage + correction

\* C16 witness: the bundle of a table with an overflow chain of two pages,
\* one chain for two overflow pages, the correction being 4.
C16_Witness ==
    /\ Bundle
    /\ result.op = "table_stats"
    /\ result.val.ovfl_pages = 2
    /\ result.val.ovfl_cnt = 1
    /\ result.val.total_metadata =
          result.val.storage - result.val.payload - result.val.total_unused + 4

\* C17: a bundle's is_compressed is true exactly when its total pages times
\* the page size exceed the summed on-disk sizes of its pages, and its
\* compressed_overhead is 14 then and 0 otherwise; when every page is stored
\* at the page size, is_compressed is false and the overhead 0 for every
\* selector.
C17_CompressedExactly ==
    Bundle =>
        LET b == result.val
            P == PageRecords(Selected(result.op, result.arg))
        IN  /\ b.is_compressed <=> Cardinality(P) * page_size > SumField(P, "pgsize")
            /\ b.compressed_overhead = IF b.is_compressed THEN 14 ELSE 0
            /\ (\A p \in dbstat : p.pgsize = page_size)
                  => (~b.is_compressed /\ b.compressed_overhead = 0)

\* C17 witness: the bundle of an index stored compressed, beside a table
\* stored whole: compressed, with an overhead of 14.
C17_Witness ==
    /\ Bundle
    /\ result.op = "index_stats"
    /\ \A p \in PageRecords({"t"}) : p.pgsize = page_size
    /\ result.val.is_compressed
    /\ result.val.compressed_overhead = 14

\* The indices of a table, by the catalog
IndicesOf(table) ==
    {Tables[k].name : k \in {j \in 1..Len(Tables) :
                               Tables[j].tbl_name = table /\ Tables[j].name # table}}

RECURSIVE SumIndexPages(_)
SumIndexPages(I) ==
    IF I = {} THEN 0
    ELSE LET i == CHOOSE x \in I : TRUE
         IN  Get(query_page_count(i)) + SumIndexPages(I \ {i})

\* C18, as stated: table_page_count(name) without exclude_indices is the
\* page count of the table with all its indices, the total_pages of
\* table_stats(name), and exceeds table_page_count(name, True) by the summed
\* index_page_count of the table's indices.
C18_CountsTableWithIndices ==
    (/\ result.op = "table_page_count"
     /\ result.err = "none"
     /\ ~result.arg[2]) =>
        LET name == result.arg[1]
            all == table_stats(name, FALSE)
            own == table_page_count(name, TRUE)
        IN  /\ all.err = "none" => result.val = Val(all.val.total_pages)
            /\ (/\ own.err = "none"
                /\ ~IsNull(result.val)
                /\ \A i \in IndicesOf(name) : ~IsNull(query_page_count(i)))
                  => Get(result.val) = Get(own.val) + SumIndexPages(IndicesOf(name))

\* C19: for a selector matching at least one object, each of them having at
\* least one page, 0 <= gap_cnt <= total_pages - 1, so the fragmentation
\* lies in [0, 100].
C19_GapsBelowPages ==
    (/\ Bundle
     /\ Selected(result.op, result.arg) # {}
     /\ \A n \in Selected(result.op, result.arg) : PageRecords({n}) # {}) =>
        LET b == result.val
            f == b.fragmentation
        IN  /\ 0 <= b.gap_cnt
            /\ b.gap_cnt <= b.total_pages - 1
            /\ f.den > 0
            /\ 0 <= f.num
            /\ f.num <= 100 * f.den

\* C19 witness: a table whose every page but the first is a leaf set apart
\* from the page before it, fragmented at 100 percent.
C19_Witness ==
    /\ Bundle
    /\ result.op = "table_stats"
    /\ result.arg = <<"t", TRUE>>
    /\ result.val.gap_cnt >= 2
    /\ result.val.gap_cnt = result.val.total_pages - 1
    /\ result.val.fragmentation = Frac(100, 1)

\* C20, as stated: index_list(table) has one entry per index the analyzed
\* database defines on the table, the indices is_without_rowid inspects, and
\* is empty exactly when the table has none; the report prints the
\* three-part breakdown for every table with at least one index.
C20_IndexListOfAnalyzedDb ==
    /\ result.op = "index_list" =>
          /\ result.err = "none"
          /\ result.val = IndexListOf(result.arg)
          /\ result.val = <<>> <=> IndexListOf(result.arg) = <<>>
    /\ (/\ result.op = "table_details"
        /\ result.err = "none"
        /\ IndexListOf(result.arg) # <<>>) =>
          /\ Len(result.val) = 2 + Len(IndexListOf(result.arg))
          /\ result.val[1].title =
                <<"Table", UpperName(result.arg), "and all its indices">>

============================================================================
